---- MODULE Spec2Model ----
(***************************************************************************)
(* Model of the reconciliation engine of chainsaw: the effective-loss      *)
(* counter (src/utils.rs, duplicated in src/main.rs), the Jaccard index,   *)
(* and the gene-tree annotators annotate_duplications / annotate_mrcas     *)
(* (src/actions.rs, duplicated in src/main.rs).                            *)
(*                                                                         *)
(* A tree is its parent array: node 1 is the root, par[1] = 0 stands for   *)
(* "no parent", and every other node's parent has a smaller index.  The    *)
(* children of a node are ordered by index.                                *)
(***************************************************************************)
EXTENDS Integers, Sequences, FiniteSets, TLC

VARIABLES
    sp,              \* species tree: parent array
    actual_species,  \* effective_losses: the sampled species (set of leaf ids)
    a,               \* effective_losses: first species set
    b,               \* effective_losses: second species set
    pc,              \* position in effective_losses / in the annotators
    missing,         \* els_oneside: the Vec of species still to explain
    r_all,           \* els_oneside: events counted so far on this side
    r_large,         \* els_oneside: multi-species events so far on this side
    left,            \* result of els_oneside on missing_left, once returned
    result,          \* value returned by effective_losses, once returned
    events,          \* the `current` sets of the loss events, per side
    gt,              \* gene tree: parent array
    attrs,           \* gene tree: the attribute map of every node
    filter_species,  \* annotate_duplications: its third argument
    restricted_species, \* annotate_duplications: Some(set) or None
    todo,            \* the internal nodes the running annotator has yet to visit
    calls,           \* number of annotator calls made so far
    outcome,         \* how the last annotator call ended
    failed_at,       \* annotate_mrcas: the node at which it returned Err
    trees,           \* main: the gene trees parsed from the input file
    ti,              \* main: index of the tree the Annotate loop is at
    out,             \* main: the `out` String, one entry per tree pushed
    file,            \* main: the input file, which Annotate writes over
    folded,          \* browser: the `folded` flag of every SubClade
    selected,        \* browser: the selected row of the gene table
    screen_to_clade, \* browser: row -> the SubClades that start at the row
    current_len,     \* browser: number of rows of the last rendering
    key              \* browser: the key press handled last

elvars == <<actual_species, a, b, missing, r_all, r_large, left, result, events>>

annvars == <<gt, attrs, filter_species, restricted_species, todo, calls, outcome, failed_at>>

mainvars == <<trees, ti, out, file>>

edvars == <<folded, selected, screen_to_clade, current_len, key>>

vars == <<sp, pc, elvars, annvars, mainvars, edvars>>

\* the variables of the tree browser, in a run without it
EdUnused ==
    /\ folded = <<>>
    /\ selected = 0
    /\ screen_to_clade = <<>>
    /\ current_len = 0
    /\ key = "none"

\* the variables of main, in a run of one function alone
MainUnused ==
    /\ trees = <<>>
    /\ ti = 0
    /\ out = <<>>
    /\ file = [state |-> "untouched", content |-> <<>>]

----------------------------------------------------------------------------
(* Bounds of the model *)

\* largest number of nodes of an enumerated species tree
MaxSpNodes == 5

\* largest number of leaves of an enumerated species tree
MaxSpLeaves == 3

----------------------------------------------------------------------------
(* Trees (newick::NewickTree, as the engine uses it) *)

None == 0

NodesOf(par) == DOMAIN par

children(par, n) == {c \in DOMAIN par : par[c] = n}

is_leaf(par, n) == children(par, n) = {}

leaves(par) == {n \in DOMAIN par : is_leaf(par, n)}

inners(par) == {n \in DOMAIN par : ~is_leaf(par, n)}

parent(par, n) == par[n]

RECURSIVE leaves_of(_, _)
leaves_of(par, n) ==
    IF is_leaf(par, n) THEN {n}
    ELSE UNION {leaves_of(par, c) : c \in children(par, n)}

RECURSIVE ascendance(_, _)
ascendance(par, n) ==
    IF par[n] = None THEN {}
    ELSE {par[n]} \cup ascendance(par, par[n])

\* climbs from node n to the first node whose leaves include all of ls
RECURSIVE mrca_from(_, _, _)
mrca_from(par, n, ls) ==
    IF ls \subseteq leaves_of(par, n) \/ par[n] = None THEN n
    ELSE mrca_from(par, par[n], ls)

mrca(par, ls) == mrca_from(par, CHOOSE l \in ls : TRUE, ls)

\* parent arrays of the rooted trees with n nodes, numbered breadth-first
TreesOfSize(n) ==
    {p \in [1..n -> 0..(n - 1)] :
        /\ p[1] = None
        /\ \A i \in 2..n : p[i] \in 1..(i - 1)
        /\ \A i \in 3..n : p[i - 1] <= p[i]}

\* the species tree ((X,Y)XY,(Z,W)ZW)Root of the specification's example:
\* Root = 1, XY = 2, ZW = 3, X = 4, Y = 5, Z = 6, W = 7
ExampleTree == <<0, 1, 1, 2, 2, 3, 3>>

SpeciesTrees ==
    {p \in UNION {TreesOfSize(n) : n \in 1..MaxSpNodes} :
        Cardinality(leaves(p)) <= MaxSpLeaves}
    \cup {ExampleTree}

----------------------------------------------------------------------------
(* effective_losses *)

SeqToSet(s) == {s[i] : i \in DOMAIN s}

\* the orders in which a HashSet may be iterated into a Vec
Orders(S) ==
    {f \in [1..Cardinality(S) -> S] : \A i, j \in DOMAIN f : f[i] = f[j] => i = j}

\* a retain that drops the seed alone
retain_first(s, current) == Tail(s)

\* a retain with the predicate inverted: `missing.retain(|x| current.contains(x))`
retain_contained(s, current) == SelectSeq(s, LAMBDA x : x \in current)

\* `missing.retain(|x| !current.contains(x))`
retain(s, current) == SelectSeq(s, LAMBDA x : x \notin current)

\* goup with the assignment `current = candidates` made before the test
RECURSIVE goup_assign_first(_, _, _, _, _)
goup_assign_first(par, n, current, miss, actual) ==
    LET candidates == leaves_of(par, n) \cap actual IN
    IF candidates /= {} /\ candidates \subseteq miss
    THEN IF parent(par, n) /= None
         THEN goup_assign_first(par, parent(par, n), candidates, miss, actual)
         ELSE candidates
    ELSE candidates \cup current

\* goup that looks for the parent before it accepts the candidates
RECURSIVE goup_parent_first(_, _, _, _, _)
goup_parent_first(par, n, current, miss, actual) ==
    LET candidates == leaves_of(par, n) \cap actual IN
    IF parent(par, n) = None THEN current
    ELSE IF candidates /= {} /\ candidates \subseteq miss
         THEN goup_parent_first(par, parent(par, n), candidates, miss, actual)
         ELSE current

\* the 'goup loop of els_oneside: the `current` Vec (as a set) when it breaks
RECURSIVE goup(_, _, _, _, _)
goup(par, n, current, miss, actual) ==
    LET candidates == leaves_of(par, n) \cap actual IN
    IF candidates /= {} /\ candidates \subseteq miss
    THEN IF parent(par, n) /= None
         THEN goup(par, parent(par, n), candidates, miss, actual)
         ELSE candidates
    ELSE current

\* `current.len() >= 1` in place of `current.len() > 1`
is_large_nonempty(current) == Cardinality(current) >= 1

\* `if current.len() > 1`: the event counts as a multi-species loss
is_large(current) == Cardinality(current) > 1

\* the annotators' variables, in a run of effective_losses alone
AnnUnused ==
    /\ gt = <<0>>
    /\ attrs = <<>>
    /\ filter_species = FALSE
    /\ restricted_species = <<"None">>
    /\ todo = {}
    /\ calls = 0
    /\ outcome = "none"
    /\ failed_at = None

\* the left-hand set taken whole, without the difference
missing_left_whole == a

missing_left == a \ b

\* the right-hand set taken whole, without the difference
missing_right_whole == b

missing_right == b \ a

\* els_oneside is entered: the early return on an empty set, or the Vec is built
ElsEnter(here, loop, ret, miss) ==
    /\ pc = here
    /\ IF miss = {}
       THEN /\ pc' = ret
            /\ missing' = <<>>
            /\ r_all' = 0
            /\ r_large' = 0
       ELSE /\ pc' = loop
            /\ \E order \in Orders(miss) : missing' = order
            /\ r_all' = 0
            /\ r_large' = 0

\* one iteration of `while !missing.is_empty()`
ElsIterate(loop, side) ==
    /\ pc = loop
    /\ missing /= <<>>
    /\ LET seed == missing[1]
           current == goup(sp, seed, {seed}, SeqToSet(missing), actual_species)
       IN /\ r_all' = r_all + 1
          /\ r_large' = IF is_large(current) THEN r_large + 1 ELSE r_large
          /\ missing' = retain(missing, current)
          /\ events' = [events EXCEPT ![side] = Append(@, current)]
    /\ UNCHANGED <<sp, actual_species, a, b, pc, left, result, annvars, mainvars, edvars>>

EnterLeft ==
    /\ ElsEnter("call_left", "loop_left", "ret_left", missing_left)
    /\ UNCHANGED <<sp, actual_species, a, b, left, result, events, annvars, mainvars, edvars>>

IterateLeft == ElsIterate("loop_left", 1)

ExitLeft ==
    /\ pc = "loop_left"
    /\ missing = <<>>
    /\ pc' = "ret_left"
    /\ UNCHANGED <<sp, actual_species, a, b, missing, r_all, r_large, left, result, events, annvars, mainvars, edvars>>

ReturnLeft ==
    /\ pc = "ret_left"
    /\ left' = <<r_all, r_large>>
    /\ pc' = "call_right"
    /\ UNCHANGED <<sp, actual_species, a, b, missing, r_all, r_large, result, events, annvars, mainvars, edvars>>

EnterRight ==
    /\ ElsEnter("call_right", "loop_right", "ret_right", missing_right)
    /\ UNCHANGED <<sp, actual_species, a, b, left, result, events, annvars, mainvars, edvars>>

IterateRight == ElsIterate("loop_right", 2)

ExitRight ==
    /\ pc = "loop_right"
    /\ missing = <<>>
    /\ pc' = "ret_right"
    /\ UNCHANGED <<sp, actual_species, a, b, missing, r_all, r_large, left, result, events, annvars, mainvars, edvars>>

\* the final sum with the right-hand multi-species count left out
ReturnRightLeftLarge ==
    /\ pc = "ret_right"
    /\ result' = <<left[1] + r_all, left[2]>>
    /\ pc' = "done"
    /\ UNCHANGED <<sp, actual_species, a, b, missing, r_all, r_large, left, events, annvars, mainvars, edvars>>

ReturnRight ==
    /\ pc = "ret_right"
    /\ result' = <<left[1] + r_all, left[2] + r_large>>
    /\ pc' = "done"
    /\ UNCHANGED <<sp, actual_species, a, b, missing, r_all, r_large, left, events, annvars, mainvars, edvars>>

InitEL ==
    /\ sp \in SpeciesTrees
    /\ actual_species \in SUBSET leaves(sp)
    /\ a \in SUBSET leaves(sp)
    /\ b \in SUBSET leaves(sp)
    /\ pc = "call_left"
    /\ missing = <<>>
    /\ r_all = 0
    /\ r_large = 0
    /\ left = <<0, 0>>
    /\ result = <<0, 0>>
    /\ events = <<<<>>, <<>>>>
    /\ AnnUnused
    /\ EdUnused
    /\ MainUnused

NextEL ==
    \/ EnterLeft
    \/ IterateLeft
    \/ ExitLeft
    \/ ReturnLeft
    \/ EnterRight
    \/ IterateRight
    \/ ExitRight
    \/ ReturnRight

SpecEL == InitEL /\ [][NextEL]_vars

\* effective_losses is straight-line sequential code: once called it keeps running
SpecELFair == SpecEL /\ WF_vars(NextEL)

----------------------------------------------------------------------------
(* jaccard, and the functional form of effective_losses *)

RECURSIVE gcd(_, _)
gcd(m, n) == IF n = 0 THEN m ELSE gcd(n, m % n)

\* the f32 quotient, kept as a fraction in lowest terms; <<0, 0>> is NaN (0/0)
f32_div(m, n) ==
    IF n = 0 THEN <<0, 0>>
    ELSE <<m \div gcd(m, n), n \div gcd(m, n)>>

\* jaccard with the union's size taken as |x| + |y|
jaccard_sum(x, y) == f32_div(Cardinality(x \cap y), Cardinality(x) + Cardinality(y))

\* jaccard with the symmetric difference counted in place of the intersection
jaccard_symdiff(x, y) ==
    f32_div(Cardinality((x \ y) \cup (y \ x)), Cardinality(x \cup y))

jaccard(x, y) == f32_div(Cardinality(x \cap y), Cardinality(x \cup y))

\* f32's Display, for the quotients of two small counts
f32_to_string(q) ==
    CASE q = <<0, 0>> -> "NaN"
      [] q = <<0, 1>> -> "0"
      [] q = <<1, 1>> -> "1"
      [] q = <<1, 2>> -> "0.5"
      [] q = <<1, 3>> -> "0.33333334"
      [] q = <<2, 3>> -> "0.6666667"
      [] q = <<1, 4>> -> "0.25"
      [] q = <<3, 4>> -> "0.75"
      [] OTHER -> ToString(q[1]) \o "/" \o ToString(q[2])

\* usize's Display
usize_to_string(n) == ToString(n)

\* els_oneside on a Vec in a given order: (r_all, r_large)
RECURSIVE els_oneside(_, _, _)
els_oneside(miss, par, actual) ==
    IF miss = <<>> THEN <<0, 0>>
    ELSE LET seed == miss[1]
             current == goup(par, seed, {seed}, SeqToSet(miss), actual)
             rest == els_oneside(retain(miss, current), par, actual)
         IN <<rest[1] + 1, rest[2] + (IF is_large(current) THEN 1 ELSE 0)>>

\* the values effective_losses may return, over the iteration orders of the
\* two HashSets
effective_losses(x, y, par, actual) ==
    {<<l[1] + r[1], l[2] + r[2]>> :
        l \in {els_oneside(o, par, actual) : o \in Orders(x \ y)},
        r \in {els_oneside(o, par, actual) : o \in Orders(y \ x)}}

\* largest element of the sets jaccard is called on
MaxElems == 4

\* jaccard is called on two sets, as make_genes_cache does on landscape tails
\* that may be empty
InitJaccard ==
    /\ a \in SUBSET (1..MaxElems)
    /\ b \in SUBSET (1..MaxElems)
    /\ pc = "call_jaccard"
    /\ sp = <<0>>
    /\ actual_species = {}
    /\ missing = <<>>
    /\ r_all = 0
    /\ r_large = 0
    /\ left = <<0, 0>>
    /\ result = <<0, 0>>
    /\ events = <<<<>>, <<>>>>
    /\ AnnUnused
    /\ EdUnused
    /\ MainUnused

\* the call returns the quotient
JaccardCall ==
    /\ pc = "call_jaccard"
    /\ result' = jaccard(a, b)
    /\ pc' = "jaccard_done"
    /\ UNCHANGED <<sp, actual_species, a, b, missing, r_all, r_large, left, events, annvars, mainvars, edvars>>

NextJaccard == JaccardCall

SpecJaccard == InitJaccard /\ [][NextJaccard]_vars

\* the f32 values 0.0 and NaN
F32Zero == <<0, 1>>

F32NaN == <<0, 0>>

\* C18 as stated: jaccard(A, B) returns 0.0 for every pair of sets A, B with an
\* empty intersection.
C18_DisjointIsZero ==
    (pc = "jaccard_done" /\ a \cap b = {}) => result = F32Zero

\* C18, amended: jaccard(A, B) returns 0.0 for every pair of sets A, B with an
\* empty intersection of which at least one is non-empty; for two empty sets it
\* returns NaN.
C18_DisjointNonEmptyIsZero ==
    /\ (pc = "jaccard_done" /\ a \cap b = {} /\ a \cup b /= {}) => result = F32Zero
    /\ (pc = "jaccard_done" /\ a = {} /\ b = {}) => result = F32NaN

\* jaccard returned for two disjoint non-empty sets
C18_Witness ==
    /\ pc = "jaccard_done"
    /\ a \cap b = {}
    /\ Cardinality(a) >= 2
    /\ b /= {}

----------------------------------------------------------------------------
(* The gene tree and the annotators *)

\* largest number of nodes of an enumerated gene tree
MaxGeneNodes == 4

\* largest number of annotator calls in one run
MaxCalls == 2

\* names of the species-tree nodes, by node
SpeciesNames == <<"s1", "s2", "s3", "s4", "s5", "s6", "s7", "s8", "s9">>

\* a species label that no species-tree leaf carries
UnknownLabel == "ghost"

\* a key that the attribute map does not hold
Absent == "<absent>"

name(par, n) == SpeciesNames[n]

\* find_leaf(|l| l.name == s): the leaf, or None
find_leaf(par, s) ==
    IF \E l \in leaves(par) : name(par, l) = s
    THEN CHOOSE l \in leaves(par) : name(par, l) = s
    ELSE None

\* ((human,mouse)HM,chicken)Root: Root = 1, HM = 2, chicken = 3, human = 4, mouse = 5
CaterpillarTree == <<0, 1, 1, 2, 2>>

\* a species tree with a single-child ancestor: Root = 1 over A = 2 and Z = 3,
\* A over B = 4 alone, B over X = 5 and Y = 6
UnaryTree == <<0, 1, 1, 2, 4, 4>>

AnnSpeciesTrees == {ExampleTree, CaterpillarTree, UnaryTree}

\* a multifurcating gene tree: the root over two leaves and a cherry
MultifurcatingGene == <<0, 1, 1, 1, 4, 4>>

\* a gene tree whose root has a cherry and a leaf as children
NestedGene == <<0, 1, 1, 2, 2>>

\* a gene tree whose root has two single-child nodes as children
TwoUnaryGene == <<0, 1, 1, 2, 3>>

GeneTrees ==
    UNION {TreesOfSize(n) : n \in 1..MaxGeneNodes}
    \cup {MultifurcatingGene, NestedGene, TwoUnaryGene}

NoAttrs == [S |-> Absent, D |-> Absent, DCS |-> Absent, ELC |-> Absent, ELLC |-> Absent]

\* the species label of gene-tree leaf l
label(l) == attrs[l].S

resolvable(l) == find_leaf(sp, label(l)) /= None

\* leaves_of taken as the leaves strictly below the node
species_under_strict(c) ==
    {find_leaf(sp, label(l)) : l \in leaves_of(gt, c) \ {c}}

\* the species of the gene-tree leaves under node c, resolved through find_leaf
species_under(c) == {find_leaf(sp, label(l)) : l \in leaves_of(gt, c)}

\* the children of a gene-tree node, in order
children_seq(n) ==
    LET cs == children(gt, n)
        k == Cardinality(cs)
    IN CHOOSE f \in [1..k -> cs] : \A i, j \in 1..k : i < j => f[i] < f[j]

\* the 'find_d loop looking only at the first two children
is_duplication_first_two(mrcas) ==
    \/ mrcas[2] \in ascendance(sp, mrcas[1])
    \/ mrcas[1] \in ascendance(sp, mrcas[2])

\* the 'find_d loop of annotate_duplications
is_duplication(mrcas) ==
    \E i \in DOMAIN mrcas : \E j \in DOMAIN mrcas :
        /\ i < j
        /\ \/ mrcas[j] \in ascendance(sp, mrcas[i])
           \/ mrcas[i] \in ascendance(sp, mrcas[j])

\* the two species sets handed to jaccard and effective_losses, taken from the
\* last two children
scored_pair_last(species) == <<species[Len(species) - 1], species[Len(species)]>>

\* the two species sets handed to jaccard and effective_losses
scored_pair(species) == <<species[1], species[2]>>

\* the test `species.len() >= 1` in place of `species.len() >= 2`
classifies_any(species) == Len(species) >= 1

\* `if species.len() >= 2`: the node is classified
classifies(species) == Len(species) >= 2

\* the else branch also resetting the scores of a node that is no duplication
write_not_dup_reset(at) == [at EXCEPT !.D = "N", !.DCS = "0", !.ELC = "0", !.ELLC = "0"]

\* the else branch of `if d`: the one insert, D = "N", on the node's attributes
write_not_dup(at) == [at EXCEPT !.D = "N"]

\* restricted_species collected from the leaves that are children of the root
restricted_of_root_children(f) ==
    IF f THEN <<"Some", {find_leaf(sp, label(l)) : l \in children(gt, 1) \cap leaves(gt)}>>
    ELSE <<"None">>

\* `let restricted_species = if filter_species { Some(..t.leaves()..) } else { None }`
restricted_of(f) == IF f THEN <<"Some", species_under(1)>> ELSE <<"None">>

Panic ==
    /\ pc' = "panicked"
    /\ outcome' = "panic"

\* annotate_duplications is called: restricted_species is computed
CallDuplications(f) ==
    /\ pc = "idle"
    /\ calls < MaxCalls
    /\ calls' = calls + 1
    /\ filter_species' = f
    /\ failed_at' = None
    /\ IF f /\ \E l \in leaves(gt) : ~resolvable(l)
       THEN /\ Panic
            /\ UNCHANGED <<restricted_species, todo>>
       ELSE /\ restricted_species' = restricted_of(f)
            /\ todo' = inners(gt)
            /\ pc' = "dup_loop"
            /\ outcome' = "running"
    /\ UNCHANGED <<sp, gt, attrs, elvars, mainvars, edvars>>

\* one iteration of `t.inners()...for_each` in annotate_duplications
DupVisit(n) ==
    /\ pc = "dup_loop"
    /\ n \in todo
    /\ todo' = todo \ {n}
    /\ IF \E l \in leaves_of(gt, n) : ~resolvable(l)
       THEN Panic /\ UNCHANGED attrs
       ELSE LET cs == children_seq(n)
                species == [i \in DOMAIN cs |-> species_under(cs[i])]
                mrcas == [i \in DOMAIN cs |-> mrca(sp, species[i])]
            IN IF classifies(species)
               THEN IF is_duplication(mrcas)
                    THEN LET pair == scored_pair(species)
                             dcs == jaccard(pair[1], pair[2])
                         IN IF restricted_species = <<"None">>
                            THEN Panic /\ UNCHANGED attrs
                            ELSE \E el \in effective_losses(pair[1], pair[2], sp,
                                                            restricted_species[2]) :
                                   /\ attrs' = [attrs EXCEPT
                                          ![n].D = "Y",
                                          ![n].DCS = f32_to_string(dcs),
                                          ![n].ELC = usize_to_string(el[1]),
                                          ![n].ELLC = usize_to_string(el[2])]
                                   /\ UNCHANGED <<pc, outcome>>
                    ELSE /\ attrs' = [attrs EXCEPT ![n] = write_not_dup(@)]
                         /\ UNCHANGED <<pc, outcome>>
               ELSE UNCHANGED <<attrs, pc, outcome>>
    /\ UNCHANGED <<sp, gt, filter_species, restricted_species, calls, failed_at, elvars, mainvars, edvars>>

\* annotate_duplications returns
DupReturn ==
    /\ pc = "dup_loop"
    /\ todo = {}
    /\ pc' = "idle"
    /\ outcome' = "returned"
    /\ UNCHANGED <<sp, gt, attrs, filter_species, restricted_species, todo, calls,
                   failed_at, elvars, mainvars, edvars>>

\* the species set of annotate_mrcas taken from the first child only
mrca_species_first_child(n) == species_under(children_seq(n)[1])

\* the species set taken only from the leaves whose parent carries no S yet
mrca_species_unvisited(n) ==
    LET fresh == {l \in leaves_of(gt, n) : attrs[parent(gt, l)].S = Absent}
    IN IF fresh = {} THEN species_under(n)
       ELSE {find_leaf(sp, label(l)) : l \in fresh}

\* the species set taken without going below a child that carries S already
mrca_species_below_annotated(n) ==
    LET ls == {l \in leaves_of(gt, n) :
                  \A c \in children(gt, n) :
                      l \in leaves_of(gt, c) => (c = l \/ attrs[c].S = Absent)}
    IN IF ls = {} THEN species_under(n)
       ELSE {find_leaf(sp, label(l)) : l \in ls}

\* the species set annotate_mrcas collects for node n
mrca_species(n) == species_under(n)

\* annotate_mrcas is called
CallMrcas ==
    /\ pc = "idle"
    /\ calls < MaxCalls
    /\ calls' = calls + 1
    /\ todo' = inners(gt)
    /\ pc' = "mrca_loop"
    /\ outcome' = "running"
    /\ failed_at' = None
    /\ UNCHANGED <<sp, gt, attrs, filter_species, restricted_species, elvars, mainvars, edvars>>

\* an iteration of annotate_mrcas that skips a node with an unresolvable label
MrcaVisitSkip(n) ==
    /\ pc = "mrca_loop"
    /\ n \in todo
    /\ todo' = todo \ {n}
    /\ IF \E l \in leaves_of(gt, n) : ~resolvable(l)
       THEN UNCHANGED attrs
       ELSE attrs' = [attrs EXCEPT ![n].S = name(sp, mrca(sp, mrca_species(n)))]
    /\ UNCHANGED <<pc, outcome, failed_at>>
    /\ UNCHANGED <<sp, gt, filter_species, restricted_species, calls, elvars, mainvars, edvars>>

\* one iteration of the for loop of annotate_mrcas
MrcaVisit(n) ==
    /\ pc = "mrca_loop"
    /\ n \in todo
    /\ todo' = todo \ {n}
    /\ IF \E l \in leaves_of(gt, n) : ~resolvable(l)
       THEN /\ \E l \in leaves_of(gt, n) :
                 /\ ~resolvable(l)
                 /\ outcome' = "Err: " \o label(l) \o " not found in species tree"
            /\ pc' = "idle"
            /\ failed_at' = n
            /\ UNCHANGED attrs
       ELSE /\ attrs' = [attrs EXCEPT ![n].S = name(sp, mrca(sp, mrca_species(n)))]
            /\ UNCHANGED <<pc, outcome, failed_at>>
    /\ UNCHANGED <<sp, gt, filter_species, restricted_species, calls, elvars, mainvars, edvars>>

\* annotate_mrcas returns Ok(())
MrcaReturn ==
    /\ pc = "mrca_loop"
    /\ todo = {}
    /\ pc' = "idle"
    /\ outcome' = "Ok"
    /\ UNCHANGED <<sp, gt, attrs, filter_species, restricted_species, todo, calls,
                   failed_at, elvars, mainvars, edvars>>

\* the variables of effective_losses, in a run of the annotators
ElUnused ==
    /\ actual_species = {}
    /\ a = {}
    /\ b = {}
    /\ missing = <<>>
    /\ r_all = 0
    /\ r_large = 0
    /\ left = <<0, 0>>
    /\ result = <<0, 0>>
    /\ events = <<<<>>, <<>>>>

\* a loaded gene tree: every leaf carries a species label, no other attribute
Init ==
    /\ sp \in AnnSpeciesTrees
    /\ gt \in GeneTrees
    /\ \E lab \in [leaves(gt) -> {name(sp, l) : l \in leaves(sp)} \cup {UnknownLabel}] :
         attrs = [n \in DOMAIN gt |->
                     IF n \in leaves(gt) THEN [NoAttrs EXCEPT !.S = lab[n]] ELSE NoAttrs]
    /\ filter_species = FALSE
    /\ restricted_species = <<"None">>
    /\ todo = {}
    /\ calls = 0
    /\ outcome = "none"
    /\ failed_at = None
    /\ pc = "idle"
    /\ ElUnused
    /\ EdUnused
    /\ MainUnused

Next ==
    \/ \E f \in BOOLEAN : CallDuplications(f)
    \/ \E n \in DOMAIN gt : DupVisit(n)
    \/ DupReturn
    \/ CallMrcas
    \/ \E n \in DOMAIN gt : MrcaVisit(n)
    \/ MrcaReturn

Spec == Init /\ [][Next]_vars

\* attributes an earlier annotation left on an internal node
StaleAttrs == [S |-> "old", D |-> "Y", DCS |-> "0.5", ELC |-> "7", ELLC |-> "7"]

\* the gene trees of the runs on an already annotated file
StaleGeneTrees == {<<0, 1, 1>>, <<0, 1, 2, 2>>, NestedGene, TwoUnaryGene}

\* a gene tree loaded from a file that was annotated before (the Annotate
\* command writes its output over its input): internal nodes may carry attributes
InitStale ==
    /\ sp \in {CaterpillarTree, UnaryTree}
    /\ gt \in StaleGeneTrees
    /\ \E lab \in [leaves(gt) -> {name(sp, l) : l \in leaves(sp)} \cup {UnknownLabel}] :
       \E old \in [inners(gt) -> {NoAttrs, StaleAttrs}] :
         attrs = [n \in DOMAIN gt |->
                     IF n \in leaves(gt) THEN [NoAttrs EXCEPT !.S = lab[n]] ELSE old[n]]
    /\ filter_species = FALSE
    /\ restricted_species = <<"None">>
    /\ todo = {}
    /\ calls = 0
    /\ outcome = "none"
    /\ failed_at = None
    /\ pc = "idle"
    /\ ElUnused
    /\ EdUnused
    /\ MainUnused

SpecStale == InitStale /\ [][Next]_vars

----------------------------------------------------------------------------
(* main: the Annotate command *)

\* largest number of gene trees in the input file
MaxTrees == 2

\* Newick::to_newick(t): the tree written out with the attributes of its nodes
to_newick(g, at) == <<g, at>>

\* a parsed gene tree with the given species labels on its leaves
Labelled(g, lab) ==
    [gt |-> g,
     attrs |-> [n \in DOMAIN g |->
                   IF n \in leaves(g) THEN [NoAttrs EXCEPT !.S = lab[n]] ELSE NoAttrs]]

\* the gene trees of the input files: one leaf, two leaves, and ((.,.),.)
MainTrees ==
    {Labelled(<<0>>, <<l>>) : l \in {"s4", UnknownLabel}}
    \cup {Labelled(<<0, 1, 1>>, <<"", l, m>>) :
             l \in {"s4", "s5", UnknownLabel}, m \in {"s4", "s5", UnknownLabel}}
    \cup {Labelled(NestedGene, <<"", "", l, "s4", "s5">>) : l \in {"s4", UnknownLabel}}

\* what the input file holds: the trees as they were parsed
InputFile == [i \in DOMAIN trees |-> to_newick(trees[i].gt, trees[i].attrs)]

\* the file is parsed, the species tree is read, `out` is empty
InitMain ==
    /\ sp = CaterpillarTree
    /\ \E k \in 1..MaxTrees : trees \in [1..k -> MainTrees]
    /\ ti = 0
    /\ out = <<>>
    /\ file = [state |-> "untouched", content |-> InputFile]
    /\ gt = <<0>>
    /\ attrs = <<>>
    /\ filter_species = FALSE
    /\ restricted_species = <<"None">>
    /\ todo = {}
    /\ calls = 0
    /\ outcome = "none"
    /\ failed_at = None
    /\ pc = "main_loop"
    /\ ElUnused
    /\ EdUnused

\* `for t in trees.iter_mut()`: t is the next tree
MainNextTree ==
    /\ pc = "main_loop"
    /\ ti < Len(trees)
    /\ ti' = ti + 1
    /\ gt' = trees[ti + 1].gt
    /\ attrs' = trees[ti + 1].attrs
    /\ pc' = "idle"
    /\ calls' = 0
    /\ outcome' = "none"
    /\ UNCHANGED <<sp, filter_species, restricted_species, todo, failed_at, trees, out,
                   file, elvars, edvars>>

\* `annotate_duplications(t, &species_tree, true)`
MainCallDuplications ==
    /\ ti >= 1
    /\ outcome = "none"
    /\ CallDuplications(TRUE)

\* `annotate_mrcas(t, &species_tree)`
MainCallMrcas ==
    /\ ti >= 1
    /\ outcome = "returned"
    /\ CallMrcas

\* a loop body that writes the tree to the file as soon as it is annotated
MainPushWrites ==
    /\ ti >= 1
    /\ pc = "idle"
    /\ outcome \notin {"none", "returned"}
    /\ IF outcome = "Ok"
       THEN /\ out' = Append(out, to_newick(gt, attrs))
            /\ file' = [state |-> "written", content |-> Append(out, to_newick(gt, attrs))]
            /\ pc' = "main_loop"
       ELSE /\ pc' = "main_err"
            /\ UNCHANGED <<out, file>>
    /\ UNCHANGED <<sp, trees, ti, elvars, annvars, edvars>>

\* the `?` on the result of annotate_mrcas, then the two `out.push`
MainPush ==
    /\ ti >= 1
    /\ pc = "idle"
    /\ outcome \notin {"none", "returned"}
    /\ IF outcome = "Ok"
       THEN /\ out' = Append(out, to_newick(gt, attrs))
            /\ pc' = "main_loop"
       ELSE /\ pc' = "main_err"
            /\ UNCHANGED out
    /\ UNCHANGED <<sp, trees, ti, file, elvars, annvars, edvars>>

\* after the loop: File::create truncates the file, write_all fills it; either
\* may fail
MainWrite ==
    /\ pc = "main_loop"
    /\ ti = Len(trees)
    /\ \E io \in {"ok", "create failed", "write failed"} :
          CASE io = "ok" ->
                 /\ file' = [state |-> "written", content |-> out]
                 /\ pc' = "main_done"
            [] io = "create failed" ->
                 /\ UNCHANGED file
                 /\ pc' = "io_err"
            [] OTHER ->
                 /\ file' = [state |-> "truncated", content |-> <<>>]
                 /\ pc' = "io_err"
    /\ UNCHANGED <<sp, trees, ti, out, elvars, annvars, edvars>>

NextMain ==
    \/ MainNextTree
    \/ MainCallDuplications
    \/ \E n \in DOMAIN gt : DupVisit(n)
    \/ DupReturn
    \/ MainCallMrcas
    \/ \E n \in DOMAIN gt : MrcaVisit(n)
    \/ MrcaReturn
    \/ MainPush
    \/ MainWrite

SpecMain == InitMain /\ [][NextMain]_vars

\* the loop of the Annotate command run once more over the Vec it has just been
\* through: iter_mut has left every tree annotated in place
MainAgain ==
    /\ pc = "main_loop"
    /\ ti = Len(trees)
    /\ Len(out) = Len(trees)
    /\ trees' = [i \in DOMAIN trees |-> [gt |-> out[i][1], attrs |-> out[i][2]]]
    /\ ti' = 0
    /\ out' = <<>>
    /\ UNCHANGED <<sp, pc, file, elvars, annvars, edvars>>

NextRerun ==
    \/ NextMain
    \/ MainAgain

SpecRerun == InitMain /\ [][NextRerun]_vars

\* a written-out tree carries S on every internal node and D on every internal
\* node with two children or more
Annotated(o) ==
    \A n \in inners(o[1]) :
        /\ o[2][n].S /= Absent
        /\ Cardinality(children(o[1], n)) >= 2 => o[2][n].D /= Absent

\* C12: the Annotate command writes its output only after every tree has been
\* through annotate_duplications and annotate_mrcas without a failure: when a
\* tree fails, by the abort of the one or the error of the other, nothing is
\* written for any tree and the file is as it was.
C12_OutputOnlyAfterAllTrees ==
    /\ file.state /= "untouched" =>
          /\ pc \in {"main_done", "io_err"}
          /\ ti = Len(trees)
          /\ Len(out) = Len(trees)
          /\ \A i \in DOMAIN out : out[i][1] = trees[i].gt /\ Annotated(out[i])
    /\ pc \in {"panicked", "main_err"} =>
          file = [state |-> "untouched", content |-> InputFile]
    /\ pc = "main_done" => file = [state |-> "written", content |-> out]

\* the second tree failed after the first had been annotated and pushed
C12_Witness ==
    /\ pc \in {"panicked", "main_err"}
    /\ ti = 2
    /\ Len(out) = 1
    /\ \E n \in inners(out[1][1]) : out[1][2][n].D = "Y"
    /\ file = [state |-> "untouched", content |-> InputFile]

----------------------------------------------------------------------------
(* The tree browser: CanvassedTree and Editor *)

\* The clade of gene-tree node n is numbered n; clade 0 is the SubClade that
\* CladeHierarchy::new creates, whose one subclade is the clade of the root.

\* (((a,b),c),d): three SubClades, and clade 0, start at the first row
LadderGene == <<0, 1, 1, 2, 2, 4, 4>>

\* the trees handed to the browser
BrowserTrees == GeneTrees \cup {LadderGene}

\* the rows PageUp and PageDown move by
PageStep == 10

\* Clade::Taxon, made for the leaves
is_taxon(c) == c /= 0 /\ is_leaf(gt, c)

\* the clades that are Clade::SubClade
SubClades == {0} \cup inners(gt)

\* the `subclades` Vec of a SubClade, in the order of append_in
subclades(c) == IF c = 0 THEN <<1>> ELSE children_seq(c)

RECURSIVE find_first_taxon(_)
find_first_taxon(c) ==
    IF is_taxon(c) THEN c ELSE find_first_taxon(subclades(c)[1])

\* `.iter().rev()`
Reverse(s) == [i \in 1..Len(s) |-> s[Len(s) + 1 - i]]

\* `screen_to_clade.entry(y).or_default()`, with v put in its place
with_entry(m, y, v) == [x \in DOMAIN m \cup {y} |-> IF x = y THEN v ELSE m[x]]

entry_or_default(m, y) == IF y \in DOMAIN m THEN m[y] ELSE <<>>

\* the `while let Some(context) = todos.pop()` loop of to_rows: the rows, each
\* the taxon drawn and whether it is drawn folded, and screen_to_clade
RECURSIVE to_rows_loop(_, _, _, _)
to_rows_loop(todos, rows, s2c, fold) ==
    IF todos = <<>> THEN [rows |-> rows, screen_to_clade |-> s2c]
    ELSE LET current == todos[Len(todos)]
             rest == SubSeq(todos, 1, Len(todos) - 1)
             y == Len(rows)
         IN IF is_taxon(current)
            THEN to_rows_loop(rest, Append(rows, <<current, FALSE>>),
                              with_entry(s2c, y, entry_or_default(s2c, y)), fold)
            ELSE LET pushed == with_entry(s2c, y,
                                          Append(entry_or_default(s2c, y), current))
                 IN IF fold[current]
                    THEN to_rows_loop(rest,
                                      Append(rows, <<find_first_taxon(current), TRUE>>),
                                      pushed, fold)
                    ELSE to_rows_loop(rest \o Reverse(subclades(current)), rows,
                                      pushed, fold)

to_rows(fold) == to_rows_loop(<<0>>, <<>>, <<>>, fold)

\* toggle_all_at on the clades listed for the row
toggle_all_at(fold, listed) ==
    LET target_state == ~(\E i \in DOMAIN listed : fold[listed[i]])
    IN [c \in DOMAIN fold |->
           IF \E i \in DOMAIN listed : listed[i] = c THEN target_state ELSE fold[c]]

\* fold_at: the last listed clade that is not folded gets folded
fold_at(fold, listed) ==
    LET open == {i \in DOMAIN listed : ~fold[listed[i]]}
    IN IF open = {} THEN fold
       ELSE LET i == CHOOSE x \in open : \A z \in open : z <= x
            IN [fold EXCEPT ![listed[i]] = TRUE]

\* unfold_at: the first listed clade that is folded gets unfolded
unfold_at(fold, listed) ==
    LET shut == {i \in DOMAIN listed : fold[listed[i]]}
    IN IF shut = {} THEN fold
       ELSE LET i == CHOOSE x \in shut : \A z \in shut : x <= z
            IN [fold EXCEPT ![listed[i]] = FALSE]

\* Editor::prev: `i.saturating_sub(count)`
prev(i, count) == IF i >= count THEN i - count ELSE 0

\* Editor::next without the clamp
next_unclamped(i, count, len) == i + count

\* Editor::next: `(i + count).clamp(0, self.plot.len() - 1)`
next(i, count, len) == IF i + count > len - 1 THEN len - 1 ELSE i + count

\* Editor::render after the key: to_rows rebuilds screen_to_clade and current_len
Render(fold) ==
    LET r == to_rows(fold)
    IN /\ screen_to_clade' = r.screen_to_clade
       /\ current_len' = Len(r.rows)

\* a key that moves the selection
Move(k, i) ==
    /\ pc = "browse"
    /\ key' = k
    /\ selected' = i
    /\ Render(folded)
    /\ UNCHANGED <<sp, pc, folded, elvars, annvars, mainvars>>

\* a key that changes the folds at the selected row;
\* `screen_to_clade.get(&screen_y).unwrap()` panics on a row without entry
Refold(k, fold2) ==
    /\ pc = "browse"
    /\ key' = k
    /\ IF selected \in DOMAIN screen_to_clade
       THEN /\ folded' = fold2
            /\ Render(fold2)
            /\ UNCHANGED pc
       ELSE /\ pc' = "panicked"
            /\ UNCHANGED <<folded, screen_to_clade, current_len>>
    /\ UNCHANGED <<sp, selected, elvars, annvars, mainvars>>

listed_at(y) == entry_or_default(screen_to_clade, y)

KeyUp == Move("Up", prev(selected, 1))

KeyDown == Move("Down", next(selected, 1, current_len))

KeyPageUp == Move("PageUp", prev(selected, PageStep))

KeyPageDown == Move("PageDown", next(selected, PageStep, current_len))

KeyHome == Move("Home", 0)

KeyEnd == Move("End", current_len - 1)

KeyLeft == Refold("Left", fold_at(folded, listed_at(selected)))

KeyRight == Refold("Right", unfold_at(folded, listed_at(selected)))

KeyTab == Refold("Tab", toggle_all_at(folded, listed_at(selected)))

\* 'q' leaves the loop
KeyQuit ==
    /\ pc = "browse"
    /\ key' = "q"
    /\ pc' = "quit"
    /\ UNCHANGED <<sp, folded, selected, screen_to_clade, current_len, elvars, annvars,
                   mainvars>>

\* Editor::new, and the first draw of Editor::run
InitBrowser ==
    /\ gt \in BrowserTrees
    /\ folded = [c \in SubClades |-> FALSE]
    /\ selected = 0
    /\ screen_to_clade = to_rows(folded).screen_to_clade
    /\ current_len = Len(to_rows(folded).rows)
    /\ key = "none"
    /\ pc = "browse"
    /\ sp = <<0>>
    /\ attrs = <<>>
    /\ filter_species = FALSE
    /\ restricted_species = <<"None">>
    /\ todo = {}
    /\ calls = 0
    /\ outcome = "none"
    /\ failed_at = None
    /\ ElUnused
    /\ MainUnused

NextBrowser ==
    \/ KeyUp
    \/ KeyDown
    \/ KeyPageUp
    \/ KeyPageDown
    \/ KeyHome
    \/ KeyEnd
    \/ KeyLeft
    \/ KeyRight
    \/ KeyTab
    \/ KeyQuit

SpecBrowser == InitBrowser /\ [][NextBrowser]_vars

\* C26: in the tree browser, after any sequence of key presses the selected
\* row is one of the rows displayed, and fold_at, unfold_at and toggle_all_at
\* find the selected row in screen_to_clade: the lookup never fails.
C26_SelectedRowIsDisplayed ==
    pc \in {"browse", "quit", "panicked"} =>
        /\ pc /= "panicked"
        /\ current_len = Len(to_rows(folded).rows)
        /\ selected < current_len
        /\ selected \in DOMAIN screen_to_clade

\* folding has shortened the display and the selection is on its last row,
\* below the first
C26_Witness ==
    /\ pc = "browse"
    /\ \E c \in DOMAIN folded : folded[c]
    /\ selected >= 1
    /\ selected = current_len - 1
    /\ current_len < Cardinality(leaves(gt))

\* the SubClades that start at row y of the display, folded ones looked into
RECURSIVE starting_with(_)
starting_with(c) ==
    IF is_taxon(c) THEN {} ELSE {c} \cup starting_with(subclades(c)[1])

starting_at(y) ==
    LET l == listed_at(y)
    IN IF l = <<>> THEN {} ELSE starting_with(l[1])

\* C27 as stated: Tab cycles the folds of the selected row: with no sub-clade
\* starting at the row folded it folds them, and with one folded it unfolds
\* them all, so that the row is displayed fully unfolded; two Tab presses on a
\* row of a tree with nothing folded bring the display back.
C27_TabCyclesFolds ==
    [][ (pc = "browse" /\ key' = "Tab" /\ pc' = "browse") =>
            IF \E c \in starting_at(selected) : folded[c]
            THEN \A c \in starting_at(selected) : ~folded'[c]
            ELSE \A c \in starting_at(selected) : folded'[c] ]_vars

----------------------------------------------------------------------------
(* Properties of effective_losses *)

\* the nodes whose clade may stand for one loss event explaining part of M
UsableClades(par, M, actual) ==
    {n \in DOMAIN par : (leaves_of(par, n) \cap actual) \subseteq M}

\* the least number of usable clades whose leaves cover M
MinCover(par, M, actual) ==
    LET covers == {C \in SUBSET UsableClades(par, M, actual) :
                      M \subseteq UNION {leaves_of(par, n) : n \in C}}
        sizes == {Cardinality(C) : C \in covers}
    IN CHOOSE k \in sizes : \A j \in sizes : k <= j

Returned == pc = "done"

AllEvents == events[1] \o events[2]

\* C1: for a and b within actual_species, the total returned by
\* effective_losses is the minimum number of species-tree clades covering
\* a-b plus the minimum number covering b-a, a clade being usable for a
\* direction only if all its sampled leaves are missing in that direction.
C1_TotalIsMinimalCover ==
    (Returned /\ a \subseteq actual_species /\ b \subseteq actual_species)
        => result[1] = MinCover(sp, a \ b, actual_species)
                       + MinCover(sp, b \ a, actual_species)

\* both directions have losses and at least one event collapses several species
C1_Witness ==
    /\ Returned
    /\ a \subseteq actual_species /\ b \subseteq actual_species
    /\ a \ b /= {} /\ b \ a /= {}
    /\ result[1] < Cardinality(a \ b) + Cardinality(b \ a)

\* C2: multi counts exactly the loss events explaining more than one sampled
\* species; when one side lacks exactly the sampled leaves of one clade with
\* at least two sampled leaves and nothing else differs, the result is (1, 1).
C2_MultiCountsCladeEvents ==
    Returned =>
        /\ result[2] = Cardinality({i \in DOMAIN AllEvents :
                            Cardinality(AllEvents[i] \cap actual_species) > 1})
        /\ \A n \in DOMAIN sp :
              LET sampled == leaves_of(sp, n) \cap actual_species IN
              (/\ Cardinality(sampled) >= 2
               /\ \/ (a \ b = sampled /\ b \ a = {})
                  \/ (b \ a = sampled /\ a \ b = {}))
                  => result = <<1, 1>>

\* the specification's example: ((X,Y)XY,(Z,W)ZW)Root, all four sampled,
\* {X,Y,Z,W} against {X,Y}: the clade ZW is lost in one event
C2_Witness ==
    /\ Returned
    /\ sp = ExampleTree
    /\ actual_species = {4, 5, 6, 7}
    /\ a = {4, 5, 6, 7}
    /\ b = {4, 5}
    /\ result = <<1, 1>>

\* C8: a species of a-b or b-a that is not in actual_species is not counted
\* as a loss: every counted event explains at least one sampled species, so
\* the total is the number of events that do.
C8_UnsampledNotCounted ==
    Returned =>
        /\ result[1] = Cardinality({i \in DOMAIN AllEvents :
                            AllEvents[i] \cap actual_species /= {}})
        /\ result[1] = MinCover(sp, (a \ b) \cap actual_species, actual_species)
                       + MinCover(sp, (b \ a) \cap actual_species, actual_species)

\* els_oneside with the seed always the smallest remaining species
RECURSIVE els_smallest_first(_, _, _)
els_smallest_first(par, miss, actual) ==
    IF miss = {} THEN <<0, 0>>
    ELSE LET seed == CHOOSE x \in miss : \A y \in miss : x <= y
             current == goup(par, seed, {seed}, miss, actual)
             rest == els_smallest_first(par, miss \ current, actual)
         IN <<rest[1] + 1, rest[2] + (IF is_large(current) THEN 1 ELSE 0)>>

\* C9: the pair (total, multi) does not depend on the seed taken at each
\* iteration: whatever the order of the Vec, the counts are those obtained
\* with the smallest remaining species as seed every time.
C9_SeedOrderIrrelevant ==
    Returned =>
        LET l == els_smallest_first(sp, a \ b, actual_species)
            r == els_smallest_first(sp, b \ a, actual_species)
        IN result = <<l[1] + r[1], l[2] + r[2]>>

\* a run with several events on the left whose first seed was not the smallest
C9_Witness ==
    /\ Returned
    /\ Len(events[1]) >= 2
    /\ (CHOOSE x \in a \ b : \A y \in a \ b : x <= y) \notin events[1][1]


\* C13: effective_losses(A, A, tree, actual_species) = (0, 0) for every set A: a
\* set compared with itself has no loss event and no multi-species loss event.
C13_SelfComparisonIsZero ==
    (Returned /\ a = b) => result = <<0, 0>>

\* a non-empty sampled set was compared with itself
C13_Witness ==
    /\ Returned
    /\ a = b
    /\ a \cap actual_species /= {}
    /\ Cardinality(a) >= 2

\* C14: effective_losses(A, B, ...) = effective_losses(B, A, ...): the value
\* returned for (a, b) is the one value the call on (b, a) can return, for the
\* total and for the multi-species count.
C14_SwapSymmetric ==
    Returned => effective_losses(b, a, sp, actual_species) = {result}

\* the two directions contributed different counts, one of them a multi-species event
C14_Witness ==
    /\ Returned
    /\ left /= <<r_all, r_large>>
    /\ left[1] >= 1
    /\ r_large >= 1

\* the species a direction started from
missing_of(side) == IF side = 1 THEN a \ b ELSE b \ a

\* C19: in each direction, when the inputs lie within actual_species, the sets
\* removed by the successive loss events are pairwise disjoint, each is contained
\* in the direction's original missing set, and together they are that set.
C19_EventsPartitionMissing ==
    (Returned /\ a \subseteq actual_species /\ b \subseteq actual_species) =>
        \A side \in {1, 2} :
            LET ev == events[side] IN
            /\ \A i, j \in DOMAIN ev : i /= j => ev[i] \cap ev[j] = {}
            /\ \A i \in DOMAIN ev : ev[i] \subseteq missing_of(side)
            /\ UNION {ev[i] : i \in DOMAIN ev} = missing_of(side)

\* a direction took two events, one of them removing several species, and the
\* other direction took one too
C19_Witness ==
    /\ Returned
    /\ a \subseteq actual_species
    /\ b \subseteq actual_species
    /\ Len(events[1]) >= 2
    /\ \E i \in DOMAIN events[1] : Cardinality(events[1][i]) >= 2
    /\ events[2] /= <<>>

\* one step of the loops keeps the variant: the seed leaves `missing`, `missing`
\* gets shorter, and iterations made plus species left never exceed the start
IterationShrinks ==
    /\ (pc \in {"loop_left", "loop_right"} /\ r_all' /= r_all) =>
          /\ r_all' = r_all + 1
          /\ missing[1] \notin SeqToSet(missing')
          /\ Len(missing') < Len(missing)
          /\ r_all' + Len(missing') <=
                Cardinality(missing_of(IF pc = "loop_left" THEN 1 ELSE 2))
    /\ (pc = "ret_right" /\ pc' = "done") =>
          /\ result'[1] = Len(events[1]) + Len(events[2])
          /\ result'[1] <= Cardinality(a \ b) + Cardinality(b \ a)

\* C20: effective_losses terminates: every outer iteration removes at least its
\* seed from `missing`, so the iterations number at most |a - b| + |b - a|, and
\* the call reaches its return.
C20_Terminates == [][IterationShrinks]_vars /\ <>Returned

\* an iteration removed several species and the loop went on
C20_Witness ==
    /\ pc = "loop_left"
    /\ r_all = 1
    /\ Cardinality(events[1][1]) >= 2
    /\ missing /= <<>>


\* C23: for all inputs the result (total, multi) of effective_losses satisfies
\* multi <= total <= |a - b| + |b - a|, and total = 0 exactly when a = b.
C23_ResultBounds ==
    Returned =>
        /\ result[2] <= result[1]
        /\ result[1] <= Cardinality(a \ b) + Cardinality(b \ a)
        /\ result[1] = 0 <=> a = b

\* a result strictly between the bounds: a multi-species event, a single one,
\* and fewer events than species
C23_Witness ==
    /\ Returned
    /\ result[2] >= 1
    /\ result[2] < result[1]
    /\ result[1] < Cardinality(a \ b) + Cardinality(b \ a)

----------------------------------------------------------------------------
(* Properties of the annotators *)

RECURSIVE Descendants(_, _)
Descendants(par, x) ==
    {x} \cup UNION {Descendants(par, c) : c \in children(par, x)}

\* x is a proper ancestor of y
ProperAncestor(par, x, y) == x /= y /\ y \in Descendants(par, x)

\* the species-tree leaves named by the labels of the gene-tree leaves under c
LeafSpecies(c) ==
    {l \in leaves(sp) : \E g \in leaves_of(gt, c) : attrs[g].S = SpeciesNames[l]}

\* the deepest species-tree node with all of S among its descendants-or-self
DeepestCover(S) ==
    LET covering == {m \in DOMAIN sp : S \subseteq Descendants(sp, m)}
    IN CHOOSE m \in covering : \A m2 \in covering : m \in Descendants(sp, m2)

\* every gene-tree leaf carries the name of a species-tree leaf
WellFormed == \A g \in leaves(gt) : \E l \in leaves(sp) : attrs[g].S = SpeciesNames[l]

\* the internal nodes that annotate_duplications classifies
Classified == {n \in inners(gt) : Cardinality(children(gt, n)) >= 2}

\* the nodes the running or just returned annotate_duplications has been through
DupVisited ==
    IF pc = "dup_loop" THEN inners(gt) \ todo
    ELSE IF pc = "idle" /\ outcome = "returned" THEN inners(gt)
    ELSE {}

\* two distinct children of n whose species MRCAs are ancestor and descendant
NestedChildren(n) ==
    LET M == [c \in children(gt, n) |-> DeepestCover(LeafSpecies(c))]
    IN \E c1 \in DOMAIN M : \E c2 \in DOMAIN M :
          c1 /= c2 /\ ProperAncestor(sp, M[c1], M[c2])

\* C3: annotate_duplications with filter_species = false completes on every
\* well-formed gene tree and writes only D, "Y" or "N", on each internal node
\* with at least two children; DCS, ELC and ELLC are not written.
C3_UnfilteredSetsOnlyD ==
    (WellFormed /\ calls = 1 /\ ~filter_species) =>
        /\ pc /= "panicked"
        /\ \A n \in DOMAIN gt :
              attrs[n].DCS = Absent /\ attrs[n].ELC = Absent /\ attrs[n].ELLC = Absent
        /\ \A n \in DupVisited \cap Classified : attrs[n].D \in {"Y", "N"}

\* C4: an internal node with at least two children is labelled D = "Y" if and
\* only if two distinct children, any pair, have leaf-species MRCAs in an
\* ancestor/descendant relation in the species tree, and D = "N" otherwise.
C4_DuplicationIffNestedPair ==
    /\ \A n \in DupVisited \cap Classified : attrs[n].D /= Absent
    /\ \A n \in DOMAIN gt :
          attrs[n].D /= Absent =>
              /\ n \in Classified
              /\ attrs[n].D = IF NestedChildren(n) THEN "Y" ELSE "N"

\* a root with three children labelled "Y" though the MRCAs of its first two
\* children are not nested, and a node labelled "N"
C4_Witness ==
    /\ gt = MultifurcatingGene
    /\ attrs[1].D = "Y"
    /\ ~ProperAncestor(sp, DeepestCover(LeafSpecies(2)), DeepestCover(LeafSpecies(3)))
    /\ ~ProperAncestor(sp, DeepestCover(LeafSpecies(3)), DeepestCover(LeafSpecies(2)))
    /\ attrs[4].D = "N"

\* C5: whenever one species is in the leaf-species sets of two distinct
\* children of an internal node, annotate_duplications labels the node D = "Y".
C5_SharedSpeciesIsDuplication ==
    \A n \in DupVisited \cap Classified :
        (\E c1 \in children(gt, n) : \E c2 \in children(gt, n) :
            c1 /= c2 /\ LeafSpecies(c1) \cap LeafSpecies(c2) /= {})
        => attrs[n].D = "Y"

\* the first and second child of n
FirstChild(n) == CHOOSE c \in children(gt, n) : \A d \in children(gt, n) : c <= d

SecondChild(n) ==
    CHOOSE c \in children(gt, n) \ {FirstChild(n)} :
        \A d \in children(gt, n) \ {FirstChild(n)} : c <= d

\* |x /\ y| / |x \/ y| as f32 prints it
JaccardString(x, y) ==
    LET i == Cardinality(x \cap y)
        u == Cardinality(x \cup y)
    IN CASE i = 0 -> "0"
         [] i = u -> "1"
         [] 2 * i = u -> "0.5"
         [] 3 * i = u -> "0.33333334"
         [] 3 * i = 2 * u -> "0.6666667"
         [] 4 * i = u -> "0.25"
         [] 4 * i = 3 * u -> "0.75"
         [] OTHER -> "?"

\* C6: at every node labelled D = "Y", DCS is the Jaccard index and (ELC, ELLC)
\* the effective losses of the species sets of the first two children, within
\* the species of the whole gene tree, whichever pair made it a duplication.
C6_ScoresFromFirstTwoChildren ==
    \A n \in DOMAIN gt :
        attrs[n].D = "Y" =>
            LET S0 == LeafSpecies(FirstChild(n))
                S1 == LeafSpecies(SecondChild(n))
                l == els_smallest_first(sp, S0 \ S1, LeafSpecies(1))
                r == els_smallest_first(sp, S1 \ S0, LeafSpecies(1))
            IN /\ attrs[n].DCS = JaccardString(S0, S1)
               /\ attrs[n].ELC = ToString(l[1] + r[1])
               /\ attrs[n].ELC = ToString(MinCover(sp, S0 \ S1, LeafSpecies(1))
                                          + MinCover(sp, S1 \ S0, LeafSpecies(1)))
               /\ attrs[n].ELLC = ToString(l[2] + r[2])

\* the specification's example, children {human, mouse} and {human}: D = "Y"
\* and DCS = 0.5
C6_Witness ==
    /\ sp = CaterpillarTree
    /\ gt = NestedGene
    /\ attrs[4].S = "s4" /\ attrs[5].S = "s5" /\ attrs[3].S = "s4"
    /\ attrs[1].D = "Y"
    /\ attrs[1].DCS = "0.5"
    /\ attrs[1].ELC = "1"
    /\ attrs[1].ELLC = "0"

\* C7: when annotate_mrcas returns Ok, every internal node, single-child nodes
\* included, has S equal to the name of the deepest species-tree node having
\* the species of all the leaves under it among its descendants-or-self.
C7_MrcaNamesDeepestCover ==
    (pc = "idle" /\ outcome = "Ok") =>
        \A n \in inners(gt) : attrs[n].S = SpeciesNames[DeepestCover(LeafSpecies(n))]

\* Ok on a tree with a single-child node, under a species tree where the MRCA
\* of two species lies below a single-child ancestor
C7_Witness ==
    /\ pc = "idle" /\ outcome = "Ok"
    /\ sp = UnaryTree
    /\ gt = <<0, 1, 1, 2>>
    /\ attrs[1].S = "s4"
    /\ attrs[2].S = "s5"

\* the internal nodes annotate_mrcas went through before the one that failed
MrcaVisitedBefore == (inners(gt) \ todo) \ {failed_at}

\* C10: when annotate_mrcas meets a leaf whose label has no species-tree leaf,
\* it returns an error naming that label; the node being processed gets no S,
\* the S of the nodes visited before remain and no later node is annotated.
C10_ErrorKeepsEarlierAnnotations ==
    /\ pc = "mrca_loop" => \A n \in inners(gt) \ todo : \A g \in leaves_of(gt, n) :
                              \E l \in leaves(sp) : attrs[g].S = SpeciesNames[l]
    /\ (calls = 1 /\ failed_at /= None) =>
          /\ pc = "idle"
          /\ \E g \in leaves_of(gt, failed_at) :
                /\ \A l \in leaves(sp) : attrs[g].S /= SpeciesNames[l]
                /\ outcome = "Err: " \o attrs[g].S \o " not found in species tree"
          /\ attrs[failed_at].S = Absent
          /\ \A n \in todo : attrs[n].S = Absent
          /\ \A n \in MrcaVisitedBefore :
                attrs[n].S = SpeciesNames[DeepestCover(LeafSpecies(n))]

\* an error return with a node annotated before it and a node left for later
C10_Witness ==
    /\ calls = 1
    /\ failed_at /= None
    /\ MrcaVisitedBefore /= {}
    /\ todo /= {}
    /\ \A n \in MrcaVisitedBefore : attrs[n].S /= Absent

\* C11 as stated: if a gene-tree leaf carries a species label that no species-tree
\* leaf has, annotate_duplications, with filter_species true or false, ends in a
\* fatal error and never returns normally.
C11_UnresolvedLabelIsFatal ==
    (\E l \in leaves(gt) : ~resolvable(l)) => outcome /= "returned"

\* the attribute keys of a node
AttrKeys == {"S", "D", "DCS", "ELC", "ELLC"}

\* what one step of the annotators may change
AnnotatorFrame ==
    /\ gt' = gt
    /\ sp' = sp
    /\ \A n \in DOMAIN gt :
          /\ n \in leaves(gt) => attrs'[n] = attrs[n]
          /\ \A k \in AttrKeys : attrs[n][k] /= Absent => attrs'[n][k] /= Absent
          /\ attrs'[n].S /= attrs[n].S => (n \in inners(gt) /\ pc = "mrca_loop")
          /\ \A k \in AttrKeys \ {"S"} :
                attrs'[n][k] /= attrs[n][k] => (n \in Classified /\ pc = "dup_loop")
          /\ (pc = "dup_loop" /\ n \notin Classified) => attrs'[n] = attrs[n]

\* C15: the annotators change nothing but S on internal nodes and D, DCS, ELC,
\* ELLC on internal nodes with at least two children: no attribute is removed,
\* the leaves, the tree structure and the species tree stay as they are, and
\* annotate_duplications writes nothing on a single-child internal node.
C15_AnnotatorsFrame == [][AnnotatorFrame]_vars

\* annotate_duplications went past a single-child node that carried attributes
\* and rewrote D on another node
C15_Witness ==
    /\ pc = "dup_loop"
    /\ \E n \in inners(gt) \ Classified : n \notin todo /\ attrs[n] = StaleAttrs
    /\ \E m \in Classified : m \notin todo /\ attrs[m].D = "N" /\ attrs[m].S = "old"

\* visiting a node that is no duplication writes D = "N" and nothing else
NotDupWritesOnlyD ==
    \A n \in DOMAIN gt :
        ( /\ pc = "dup_loop"
          /\ pc' = "dup_loop"
          /\ n \in todo
          /\ n \notin todo'
          /\ n \in Classified
          /\ ~NestedChildren(n) )
        => attrs'[n] = [attrs[n] EXCEPT !.D = "N"]

\* C16: on a node it classifies as not a duplication annotate_duplications
\* writes D = "N" and no other attribute: DCS, ELC and ELLC are neither
\* inserted nor overwritten.
C16_NotDuplicationWritesOnlyD == [][NotDupWritesOnlyD]_vars

\* a node carrying scores of an earlier annotation was relabelled D = "N" and
\* kept them
C16_Witness ==
    /\ pc = "dup_loop"
    /\ \E n \in Classified :
          /\ n \notin todo
          /\ ~NestedChildren(n)
          /\ attrs[n] = [StaleAttrs EXCEPT !.D = "N"]

\* what the leaf labels and the species tree alone say internal node n carries
\* once both annotators have been over it: S, D, and <<DCS, ELC, ELLC>>
FinalS(n) == SpeciesNames[DeepestCover(LeafSpecies(n))]

FinalD(n) ==
    IF n \notin Classified THEN Absent
    ELSE IF NestedChildren(n) THEN "Y" ELSE "N"

FinalScores(n) ==
    LET S0 == LeafSpecies(FirstChild(n))
        S1 == LeafSpecies(SecondChild(n))
        all == LeafSpecies(1)
        l == els_smallest_first(sp, S0 \ S1, all)
        r == els_smallest_first(sp, S1 \ S0, all)
    IN <<JaccardString(S0, S1), ToString(l[1] + r[1]), ToString(l[2] + r[2])>>

FinalAttrs(n) ==
    LET sc == IF FinalD(n) = "Y" THEN FinalScores(n) ELSE <<Absent, Absent, Absent>>
    IN [S |-> FinalS(n), D |-> FinalD(n), DCS |-> sc[1], ELC |-> sc[2], ELLC |-> sc[3]]

\* every attribute an internal node carries is the one the leaf labels and the
\* species tree give, and a completed call has written all of its attributes
WrittenFromLeavesOnly ==
    \A n \in inners(gt) :
        LET at == attrs[n]
            checkS == at.S /= Absent \/ (pc = "idle" /\ outcome = "Ok")
            checkD == \/ at.D /= Absent \/ at.DCS /= Absent
                      \/ at.ELC /= Absent \/ at.ELLC /= Absent
                      \/ (pc = "idle" /\ outcome = "returned")
            d == FinalD(n)
        IN /\ checkS => at.S = FinalS(n)
           /\ checkD =>
                 /\ at.D = d
                 /\ <<at.DCS, at.ELC, at.ELLC>> =
                       IF d = "Y" THEN FinalScores(n) ELSE <<Absent, Absent, Absent>>

\* an attribute, once written, keeps its value through every later visit and call
WrittenIsFinal ==
    \A n \in DOMAIN gt : \A k \in AttrKeys :
        attrs[n][k] /= Absent => attrs'[n][k] = attrs[n][k]

\* C17: what the annotators write on an internal node depends only on the S
\* labels of the leaves and on the species tree, never on what was written on
\* other internal nodes: the annotated tree is the same for every order of
\* visiting the internal nodes and whether annotate_duplications runs before or
\* after annotate_mrcas.
C17_OrderIndependent == []WrittenFromLeavesOnly /\ [][WrittenIsFinal]_vars

\* annotate_mrcas ran first and annotate_duplications second, and the tree is
\* fully annotated with a duplication and a non-duplication
C17_Witness ==
    /\ calls = 2
    /\ pc = "idle"
    /\ outcome = "returned"
    /\ \A n \in inners(gt) : attrs[n] = FinalAttrs(n)
    /\ \E n \in inners(gt) : attrs[n].D = "Y"
    /\ \E n \in inners(gt) : attrs[n].D = "N"

\* C21: in a gene tree whose leaves all carry a resolvable S label, every
\* leaf-species set the annotators compute, for a child or for an internal
\* node, is non-empty and holds species-tree leaves only, so mrca never gets an
\* empty set and jaccard never two empty sets; a DCS that is written is a
\* defined ratio between 0 and 1.
C21_SpeciesSetsNonEmpty ==
    WellFormed =>
        /\ \A c \in DOMAIN gt :
              species_under(c) /= {} /\ species_under(c) \subseteq leaves(sp)
        /\ \A n \in DupVisited \cap Classified :
              attrs[n].D = "Y" =>
                  LET cs == children_seq(n)
                      q == jaccard(species_under(cs[1]), species_under(cs[2]))
                  IN /\ q[2] > 0
                     /\ 0 <= q[1] /\ q[1] <= q[2]
                     /\ attrs[n].DCS = f32_to_string(q)
                     /\ attrs[n].DCS /= "NaN"

\* annotate_duplications has written a duplication whose first two children
\* share no species
C21_Witness ==
    /\ WellFormed
    /\ \E n \in DupVisited \cap Classified : attrs[n].D = "Y" /\ attrs[n].DCS = "0"

\* C22: at every call of effective_losses that annotate_duplications makes with
\* filter_species = true, the two species sets passed lie within actual_species,
\* the species resolved from all the leaves of the gene tree, so every seed of
\* the loss counter is a sampled species.
C22_LossInputsAreSampled ==
    (pc = "dup_loop" /\ filter_species) =>
        /\ restricted_species[1] = "Some"
        /\ \A n \in inners(gt) :
              LET cs == children_seq(n)
                  species == [i \in DOMAIN cs |-> species_under(cs[i])]
              IN classifies(species) =>
                    LET pair == scored_pair(species)
                    IN pair[1] \cup pair[2] \subseteq restricted_species[2]

\* a filtered call has counted a loss at a duplication node
C22_Witness ==
    /\ pc = "dup_loop"
    /\ filter_species
    /\ \E n \in inners(gt) : attrs[n].D = "Y" /\ attrs[n].ELC \notin {Absent, "0"}

\* C24 as stated: once annotate_duplications with filter_species = true has
\* completed, whatever attributes the nodes carried before the call, a node
\* carries DCS, ELC and ELLC if and only if it carries D = "Y".
C24_ScoresIffDuplication ==
    (pc = "idle" /\ outcome = "returned" /\ filter_species) =>
        \A n \in DOMAIN gt : \A k \in {"DCS", "ELC", "ELLC"} :
            attrs[n][k] /= Absent <=> attrs[n].D = "Y"

\* C25: annotation is idempotent: annotate_duplications(filter_species = true)
\* followed by annotate_mrcas, run a second time on the tree they have just
\* annotated against the same species tree, leave every attribute of every node
\* as it is, at every step and at the end.
C25_AnnotationIdempotent ==
    /\ ( /\ ti >= 1
         /\ pc \in {"idle", "dup_loop", "mrca_loop"}
         /\ Annotated(to_newick(trees[ti].gt, trees[ti].attrs)) )
       => attrs = trees[ti].attrs
    /\ \A i \in DOMAIN out :
          Annotated(to_newick(trees[i].gt, trees[i].attrs))
          => out[i] = to_newick(trees[i].gt, trees[i].attrs)

\* the second pass is over on a tree with a duplication and an internal node
\* below the root, and has pushed the tree as the first pass left it
C25_Witness ==
    /\ pc = "main_loop"
    /\ Len(out) = Len(trees)
    /\ trees[1].gt = NestedGene
    /\ trees[1].attrs[1].D = "Y"
    /\ trees[1].attrs[2].S /= Absent
    /\ out[1] = to_newick(trees[1].gt, trees[1].attrs)

====
